---- MODULE Spec2Model ----
(***************************************************************************)
(* A model of crates/binder/src/lib.rs: the RepositoryBuilder, the         *)
(* Repository and its checkout, the SourceLocation and the Binder with     *)
(* its generate pipeline.  GitRemote and GitDatabase (crate::utils) are    *)
(* collaborators whose code is not part of lib.rs; they are modelled from  *)
(* their description in the specification.                                 *)
(***************************************************************************)
EXTENDS Naturals, Sequences, FiniteSets, TLC

\* ------------------------------------------------------------------ bounds
\* The number of RepositoryBuilder setter calls made before build.
MaxCalls == 3
\* The number of hook commands added to a Binder.
MaxCmds == 2
\* The number of times generate (or a direct checkout) is invoked.
MaxRuns == 2

\* ----------------------------------------------------------------- options
None == <<>>
Some(x) == <<x>>
IsSome(o) == o /= <<>>
Unwrap(o) == o[1]

\* ------------------------------------------------------------------- paths
\* A path is a sequence of components; a component is a tuple of strings
\* (one string for an ordinary name, prefix and random part for a temporary
\* name).  The empty path is the file-system root "/".
Root == <<>>
Comp(s) == <<s>>
DotDot == Comp("..")
\* std::env::temp_dir()
TempRoot == <<Comp("tmp")>>
\* The random parts tempfile draws, in the order the model hands them out.
TmpSuffixes == <<"a", "b">>
\* The prefix tempfile::tempdir() uses by default.
DefaultTmpPrefix == ".tmp"

IsPrefix(a, b) == Len(a) <= Len(b) /\ SubSeq(b, 1, Len(a)) = a
Ancestors(p) == {SubSeq(p, 1, n) : n \in 0..Len(p)}
RemoveDirAll(root, dirs) == {d \in dirs : ~IsPrefix(root, d)}
RemoveEntries(root, entries) == {e \in entries : ~IsPrefix(root, e[1])}
CreateDirAll(p, dirs) == dirs \cup Ancestors(p)

\* Path::file_name: None for the root and for a path that ends in "..".
file_name(p) ==
    IF p = Root \/ p[Len(p)] = DotDot THEN None ELSE Some(p[Len(p)])

\* The caller-supplied destination directories: an ordinary one, "/", and one
\* that ends in "..".
DestPaths == { <<Comp("work"), Comp("aave")>>, Root, <<Comp("work"), DotDot>> }
\* The caller-supplied database directories.
DbPaths == { <<Comp("cache"), Comp("db")>> }
\* The local project directories.
LocalPaths == { <<Comp("project")>> }

\* -------------------------------------------------------------------- urls
\* A Url: whether it is a cannot-be-a-base url (mailto:..., data:...), and its
\* path segments otherwise.
Urls == { [cannot_be_a_base |-> FALSE, segs |-> <<"aave", "aave-v3-core">>],
          [cannot_be_a_base |-> FALSE, segs |-> <<"">>],
          [cannot_be_a_base |-> TRUE, segs |-> <<>>] }
GoodUrl == [cannot_be_a_base |-> FALSE, segs |-> <<"aave", "aave-v3-core">>]

\* Url::path_segments
path_segments(url) == IF url.cannot_be_a_base THEN None ELSE Some(url.segs)

\* -------------------------------------------------------------- references
RefNames == {"main", "v1"}
Branch(n) == [kind |-> "Branch", name |-> n]
Tag(n) == [kind |-> "Tag", name |-> n]
Rev(n) == [kind |-> "Rev", name |-> n]
\* GitReference::default()
DefaultBranch == [kind |-> "DefaultBranch", name |-> ""]

Procs == {1, 2}

VARIABLES
    pc,        \* the position of the main thread
    builder,   \* Option<RepositoryBuilder>: the builder being configured
    calls,     \* the setter calls made on the builder so far, in order
    repo,      \* per caller, Option<Repository> (pc tells when it was dropped)
    disk,      \* the directories that exist
    store,     \* <<database path, oid>>: the objects each database holds
    tree,      \* <<directory, oid>>: the tree extracted into a directory
    lock,      \* <<database path, caller>>: the database locks held
    cpc,       \* per caller, the position inside Repository::checkout
    ctmp,      \* per caller, the `tmp` TempDir checkout holds, if any
    cdb,       \* per caller, the database path checkout passes to copy_to
    coid,      \* per caller, the oid GitRemote::checkout returned, if any
    cres,      \* per caller, the result of the last Repository::checkout
    cext,      \* per caller, the extractions the running checkout made
    binder,    \* the Binder
    cfg,       \* the Config copy the running generate uses
    hookIdx,   \* the number of hook commands generate has taken off the list
    child,     \* the hook child process running, if any
    log,       \* what the running (or last) generate did, in order
    result,    \* what the last generate returned
    runs       \* how many generate / checkout invocations were started

vars == <<pc, builder, calls, repo, disk, store, tree, lock, cpc, ctmp, cdb,
          coid, cres, cext, binder, cfg, hookIdx, child, log, result, runs>>

repoVars == <<repo, disk, store, tree, lock, cpc, ctmp, cdb, coid, cres, cext>>
binderVars == <<binder, cfg, hookIdx, child, log, result>>

\* The directories that exist before the program runs.
InitialDisk == {Root, TempRoot}

\* -------------------------------------------------------- RepositoryBuilder
\* RepositoryBuilder::new
RepositoryBuilder_new(url) ==
    [repo |-> url, rev |-> DefaultBranch, dest |-> None, db_path |-> None]

\* A variant of branch that leaves a tag set before in place.
set_branch_keeps_tag(b, n) == IF b.rev.kind = "Tag" THEN b ELSE [b EXCEPT !.rev = Branch(n)]

\* RepositoryBuilder::branch / tag / rev
set_branch(b, n) == [b EXCEPT !.rev = Branch(n)]
set_tag(b, n) == [b EXCEPT !.rev = Tag(n)]
set_rev(b, n) == [b EXCEPT !.rev = Rev(n)]
\* RepositoryBuilder::dest
set_dest(b, p) == [b EXCEPT !.dest = Some(p)]
\* RepositoryBuilder::database
set_database(b, p) == [b EXCEPT !.db_path = Some(p)]

CallBranch(n) == [op |-> "branch", name |-> n, path |-> Root]
CallTag(n) == [op |-> "tag", name |-> n, path |-> Root]
CallRev(n) == [op |-> "rev", name |-> n, path |-> Root]
CallDest(p) == [op |-> "dest", name |-> "", path |-> p]
CallDatabase(p) == [op |-> "database", name |-> "", path |-> p]

SetterStep(nb, call) ==
    /\ pc = "builder"
    /\ Len(calls) < MaxCalls
    /\ builder' = Some(nb)
    /\ calls' = Append(calls, call)
    /\ UNCHANGED <<pc, runs>>
    /\ UNCHANGED repoVars
    /\ UNCHANGED binderVars

BuilderBranch == \E n \in RefNames : SetterStep(set_branch(Unwrap(builder), n), CallBranch(n))
BuilderTag == \E n \in RefNames : SetterStep(set_tag(Unwrap(builder), n), CallTag(n))
BuilderRev == \E n \in RefNames : SetterStep(set_rev(Unwrap(builder), n), CallRev(n))
BuilderDest == \E p \in DestPaths : SetterStep(set_dest(Unwrap(builder), p), CallDest(p))
BuilderDatabase == \E p \in DbPaths : SetterStep(set_database(Unwrap(builder), p), CallDatabase(p))

\* The name of a temporary directory with the given prefix and random part.
TempPath(prefix, rnd) == Append(TempRoot, <<prefix, rnd>>)

\* The temporary directories tempfile can create with the prefix: a name that
\* does not exist yet (the first free one stands for any of them).
FreshTemp(prefix, dirs) ==
    LET free == {i \in 1..Len(TmpSuffixes) : TempPath(prefix, TmpSuffixes[i]) \notin dirs}
    IN  {TempPath(prefix, TmpSuffixes[i]) : i \in {j \in free : \A k \in free : j <= k}}

\* The Repository build assembles from the builder's fields and the
\* destination it chose.
MkRepository(b, dest) ==
    [repo |-> b.repo, rev |-> b.rev, db_path |-> b.db_path, dest |-> dest]

DestPath(p) == [kind |-> "Path", dir |-> p]
DestTemp(p) == [kind |-> "Temp", dir |-> p]

\* A variant of build that creates the destination directory it is given.
BuildCreatesDest(b, dirs) ==
    IF IsSome(b.dest)
    THEN { [panic |-> FALSE, repo |-> Some(MkRepository(b, DestPath(Unwrap(b.dest)))),
            disk |-> CreateDirAll(Unwrap(b.dest), dirs)] }
    ELSE { [panic |-> TRUE, repo |-> None, disk |-> dirs] }

\* RepositoryBuilder::build, the outcomes: a Repository and the directories
\* on disk afterwards, or a panic (no Repository).
\*   - dest set: RepositoryDestination::Path(dest), nothing touched;
\*   - no dest: the url's last path segment prefixes a new temporary
\*     directory; path_segments().unwrap() panics for a cannot-be-a-base url,
\*     and expect() panics when the directory cannot be created.
BuildOutcomes(b, dirs) ==
    IF IsSome(b.dest)
    THEN { [panic |-> FALSE, repo |-> Some(MkRepository(b, DestPath(Unwrap(b.dest)))),
            disk |-> dirs] }
    ELSE IF ~IsSome(path_segments(b.repo))
    THEN { [panic |-> TRUE, repo |-> None, disk |-> dirs] }
    ELSE LET segs == Unwrap(path_segments(b.repo))
             name == segs[Len(segs)]
         IN  { [panic |-> FALSE,
                repo |-> Some(MkRepository(b, DestTemp(dir))),
                disk |-> dirs \cup {dir}]
               : dir \in FreshTemp(name, dirs) }
             \cup { [panic |-> TRUE, repo |-> None, disk |-> dirs] }

\* RepositoryDestination::as_ref
dest_as_ref(r) == r.dest.dir

\* A variant in which every destination is deleted when dropped.
DropDestinationAlways(r, dirs) == RemoveDirAll(r.dest.dir, dirs)

\* Dropping a RepositoryDestination: a TempDir deletes its directory, a Path
\* deletes nothing.
DropDestination(r, dirs) ==
    IF r.dest.kind = "Temp" THEN RemoveDirAll(r.dest.dir, dirs) ELSE dirs
DropDestinationEntries(r, entries) ==
    IF r.dest.kind = "Temp" THEN RemoveEntries(r.dest.dir, entries) ELSE entries

\* ------------------------------------------- GitRemote / GitDatabase (utils)
\* The oids the remote serves, and the oid each reference names there (None:
\* the remote has no such reference).
RemoteOids == {"oid_main", "oid_v1"}
RemoteRef(rev) ==
    CASE rev = DefaultBranch -> Some("oid_main")
      [] rev = Branch("main") -> Some("oid_main")
      [] rev = Tag("v1") -> Some("oid_v1")
      [] rev = Rev("v1") -> Some("oid_v1")
      [] OTHER -> None

\* A variant without the lock.
LockNeverHeld(db) == TRUE

\* Whether no caller holds the lock of the database at db.
LockFree(db) == \A q \in Procs : <<db, q>> \notin lock

\* The callers inside the fetch-and-resolve section of the database at db.
InFetchResolve(p) == cpc[p] \in {"fetch", "resolve"}

\* ---------------------------------------------------------------- Repository
\* A variant in which `tmp` is kept (into_path) instead of dropped.
KeepTmp(tmp, dirs) == dirs

\* Dropping the `tmp` TempDir of checkout deletes the temporary root and all
\* below it.
DropTmp(tmp, dirs) == IF IsSome(tmp) THEN RemoveDirAll(Unwrap(tmp), dirs) ELSE dirs
DropTmpEntries(tmp, entries) ==
    IF IsSome(tmp) THEN RemoveEntries(Unwrap(tmp), entries) ELSE entries

\* A variant of the entry of checkout that allocates a temporary database
\* whether or not db_path is set.
CheckoutEntryIgnoresDbPath(r, dirs) ==
    { [res |-> "go", db |-> Append(tmp, <<"db">>), tmp |-> Some(tmp), disk |-> dirs \cup {tmp}]
      : tmp \in FreshTemp(DefaultTmpPrefix, dirs) }

\* The database path Repository::checkout hands to copy_to: db_path when set,
\* else tmp.path().join(dest.file_name().unwrap()).
\* Outcomes of the entry of Repository::checkout, before copy_to is called.
CheckoutEntryOutcomes(r, dirs) ==
    IF IsSome(r.db_path)
    THEN { [res |-> "go", db |-> Unwrap(r.db_path), tmp |-> None, disk |-> dirs] }
    ELSE \* tempdir()? failed
         { [res |-> "Err", db |-> Root, tmp |-> None, disk |-> dirs] }
         \cup
         { IF IsSome(file_name(dest_as_ref(r)))
           THEN [res |-> "go",
                 db |-> Append(tmp, Unwrap(file_name(dest_as_ref(r)))),
                 tmp |-> Some(tmp),
                 disk |-> dirs \cup {tmp}]
           ELSE \* unwrap() panics; unwinding drops tmp
                [res |-> "Panic", db |-> Root, tmp |-> None,
                 disk |-> DropTmp(Some(tmp), dirs \cup {tmp})]
           : tmp \in FreshTemp(DefaultTmpPrefix, dirs) }

\* Repository::checkout is entered.
CheckoutEnter(p) ==
    /\ cpc[p] = "call"
    /\ \E o \in CheckoutEntryOutcomes(Unwrap(repo[p]), disk) :
         /\ disk' = o.disk
         /\ cdb' = [cdb EXCEPT ![p] = o.db]
         /\ ctmp' = [ctmp EXCEPT ![p] = o.tmp]
         /\ cpc' = [cpc EXCEPT ![p] = IF o.res = "go" THEN "lock" ELSE "ret"]
         /\ cres' = [cres EXCEPT ![p] = IF o.res = "go" THEN "none" ELSE o.res]
    /\ coid' = [coid EXCEPT ![p] = None]
    /\ cext' = [cext EXCEPT ![p] = <<>>]
    /\ UNCHANGED <<store, tree, lock>>

\* A variant of the return from checkout in which the destination is dropped
\* together with `tmp`.
ReturnDropsDestination(p, res, dirs, objs, trees) ==
    /\ disk' = DropDestination(Unwrap(repo[p]), DropTmp(ctmp[p], dirs))
    /\ store' = DropTmpEntries(ctmp[p], objs)
    /\ tree' = DropDestinationEntries(Unwrap(repo[p]), DropTmpEntries(ctmp[p], trees))
    /\ lock' = {l \in lock : l[2] /= p}
    /\ ctmp' = [ctmp EXCEPT ![p] = None]
    /\ cdb' = [cdb EXCEPT ![p] = Root]
    /\ coid' = [coid EXCEPT ![p] = None]
    /\ cres' = [cres EXCEPT ![p] = res]
    /\ cpc' = [cpc EXCEPT ![p] = "ret"]

\* copy_to returns (with Ok or Err), and with it Repository::checkout: the
\* database lock is released and `tmp` goes out of scope.
ReturnFromCheckout(p, res, dirs, objs, trees) ==
    /\ disk' = DropTmp(ctmp[p], dirs)
    /\ store' = DropTmpEntries(ctmp[p], objs)
    /\ tree' = DropTmpEntries(ctmp[p], trees)
    /\ lock' = {l \in lock : l[2] /= p}
    /\ ctmp' = [ctmp EXCEPT ![p] = None]
    /\ cdb' = [cdb EXCEPT ![p] = Root]
    /\ coid' = [coid EXCEPT ![p] = None]
    /\ cres' = [cres EXCEPT ![p] = res]
    /\ cpc' = [cpc EXCEPT ![p] = "ret"]

\* GitRemote::checkout takes the lock of the database path.
GitLock(p) ==
    /\ cpc[p] = "lock"
    /\ LockFree(cdb[p])
    /\ lock' = lock \cup {<<cdb[p], p>>}
    /\ cpc' = [cpc EXCEPT ![p] = "fetch"]
    /\ UNCHANGED <<disk, store, tree, ctmp, cdb, coid, cres, cext>>

\* GitRemote::checkout fetches into the database (creating it if absent).
GitFetchOk(p) ==
    /\ cpc[p] = "fetch"
    /\ Unwrap(repo[p]).rev.kind = "Rev" \/ IsSome(RemoteRef(Unwrap(repo[p]).rev))
    /\ disk' = CreateDirAll(cdb[p], disk)
    /\ store' = store \cup {<<cdb[p], o>> : o \in RemoteOids}
    /\ cpc' = [cpc EXCEPT ![p] = "resolve"]
    /\ UNCHANGED <<tree, lock, ctmp, cdb, coid, cres, cext>>

\* The fetch fails: FetchError::Network for any reference,
\* FetchError::ReferenceNotFound for a branch or tag the remote lacks.
GitFetchFail(p) ==
    /\ cpc[p] = "fetch"
    /\ ReturnFromCheckout(p, "Err", disk, store, tree)
    /\ UNCHANGED cext

\* GitRemote::checkout resolves the reference in the database and returns the
\* bound database and the oid, or CheckoutError::NotFound.
GitResolve(p) ==
    /\ cpc[p] = "resolve"
    /\ LET o == RemoteRef(Unwrap(repo[p]).rev)
       IN  IF IsSome(o) /\ <<cdb[p], Unwrap(o)>> \in store
           THEN /\ coid' = [coid EXCEPT ![p] = o]
                /\ lock' = {l \in lock : l[2] /= p}
                /\ cpc' = [cpc EXCEPT ![p] = "extract"]
                /\ UNCHANGED <<disk, store, tree, ctmp, cdb, cres, cext>>
           ELSE /\ ReturnFromCheckout(p, "Err", disk, store, tree)
                /\ UNCHANGED cext

\* GitDatabase::copy_to: the tree of oid is written into dest (created if
\* missing; what else is in dest is left alone).
ExtractInto(dest, oid, trees) == {t \in trees : t[1] /= dest} \cup {<<dest, oid>>}

ExtractOk(p) ==
    /\ cpc[p] = "extract"
    /\ <<cdb[p], Unwrap(coid[p])>> \in store
    /\ LET dest == dest_as_ref(Unwrap(repo[p]))
       IN  /\ ReturnFromCheckout(p, "Ok", CreateDirAll(dest, disk), store,
                                 ExtractInto(dest, Unwrap(coid[p]), tree))
           /\ cext' = [cext EXCEPT ![p] =
                          Append(@, [db |-> cdb[p], oid |-> Unwrap(coid[p]), dest |-> dest])]

\* ExtractionError::Io, or IdentifierNotInDatabase when the oid is not there.
ExtractFail(p) ==
    /\ cpc[p] = "extract"
    /\ ReturnFromCheckout(p, "Err", disk, store, tree)
    /\ UNCHANGED cext

\* A variant of checkout that, when the fetch fails, extracts the default
\* branch's tree into the destination all the same before it returns the
\* error.
CheckoutStepExtractsAnyway(p) ==
    \/ CheckoutEnter(p)
    \/ GitLock(p)
    \/ GitFetchOk(p)
    \/ GitResolve(p)
    \/ ExtractOk(p)
    \/ ExtractFail(p)
    \/ /\ cpc[p] = "fetch"
       /\ LET dest == dest_as_ref(Unwrap(repo[p]))
          IN  /\ ReturnFromCheckout(p, "Err", CreateDirAll(dest, disk), store,
                                    ExtractInto(dest, "oid_main", tree))
              /\ cext' = [cext EXCEPT ![p] =
                             Append(@, [db |-> cdb[p], oid |-> "oid_main", dest |-> dest])]

\* A step of Repository::checkout by caller p.
CheckoutStep(p) ==
    \/ CheckoutEnter(p)
    \/ GitLock(p)
    \/ GitFetchOk(p)
    \/ GitFetchFail(p)
    \/ GitResolve(p)
    \/ ExtractOk(p)
    \/ ExtractFail(p)

\* Dropping the Repository of caller p: its dest field is dropped.
DropRepository(p) ==
    /\ disk' = DropDestination(Unwrap(repo[p]), disk)
    /\ tree' = DropDestinationEntries(Unwrap(repo[p]), tree)
    /\ store' = DropDestinationEntries(Unwrap(repo[p]), store)
    /\ UNCHANGED repo

\* ------------------------------------------------- the Repository on its own
IdleProc == [p \in Procs |-> "idle"]
NoBinder ==
    [location |-> [kind |-> "None", path |-> Root], deployable |-> TRUE,
     keep_artifacts |-> None, commands |-> <<>>, config |-> None, bindings |-> None]
NoCfg == [root |-> Root]

InitCommon ==
    /\ calls = <<>>
    /\ disk = InitialDisk
    /\ store = {}
    /\ tree = {}
    /\ lock = {}
    /\ cpc = IdleProc
    /\ ctmp = [p \in Procs |-> None]
    /\ cdb = [p \in Procs |-> Root]
    /\ coid = [p \in Procs |-> None]
    /\ cres = [p \in Procs |-> "none"]
    /\ cext = [p \in Procs |-> <<>>]
    /\ cfg = NoCfg
    /\ hookIdx = 0
    /\ child = None
    /\ log = <<>>
    /\ result = "none"
    /\ runs = 0

\* RepositoryBuilder::new(url) was called.
InitRepo ==
    /\ InitCommon
    /\ pc = "builder"
    /\ \E url \in Urls : builder = Some(RepositoryBuilder_new(url))
    /\ repo = [p \in Procs |-> None]
    /\ binder = NoBinder

\* builder.build()
Build ==
    /\ pc = "builder"
    /\ \E o \in BuildOutcomes(Unwrap(builder), disk) :
         /\ disk' = o.disk
         /\ repo' = [repo EXCEPT ![1] = o.repo]
         /\ pc' = IF o.panic THEN "panicked" ELSE "built"
    /\ builder' = None
    /\ UNCHANGED <<calls, store, tree, lock, cpc, ctmp, cdb, coid, cres, cext, runs>>
    /\ UNCHANGED binderVars

\* repo.checkout() is called.
CheckoutCall ==
    /\ pc = "built"
    /\ runs < MaxRuns
    /\ pc' = "checkout"
    /\ runs' = runs + 1
    /\ cpc' = [cpc EXCEPT ![1] = "call"]
    /\ cres' = [cres EXCEPT ![1] = "none"]
    /\ UNCHANGED <<builder, calls, repo, disk, store, tree, lock, ctmp, cdb, coid, cext>>
    /\ UNCHANGED binderVars

\* Repository::checkout runs.
CheckoutRun ==
    /\ pc = "checkout"
    /\ CheckoutStep(1)
    /\ UNCHANGED <<pc, builder, calls, repo, runs>>
    /\ UNCHANGED binderVars

\* repo.checkout() returned (or panicked) to its caller.
CheckoutReturn ==
    /\ pc = "checkout"
    /\ cpc[1] = "ret"
    /\ pc' = IF cres[1] = "Panic" THEN "panicked" ELSE "built"
    /\ cpc' = [cpc EXCEPT ![1] = "idle"]
    /\ UNCHANGED <<builder, calls, repo, disk, store, tree, lock, ctmp, cdb, coid, cres, cext, runs>>
    /\ UNCHANGED binderVars

\* The Repository goes out of scope: after use, or when a panic unwinds.
ReleaseRepo ==
    /\ pc \in {"built", "panicked"}
    /\ IsSome(repo[1])
    /\ DropRepository(1)
    /\ pc' = "released"
    /\ UNCHANGED <<builder, calls, lock, cpc, ctmp, cdb, coid, cres, cext, runs>>
    /\ UNCHANGED binderVars

NextRepo ==
    \/ BuilderBranch
    \/ BuilderTag
    \/ BuilderRev
    \/ BuilderDest
    \/ BuilderDatabase
    \/ Build
    \/ CheckoutCall
    \/ CheckoutRun
    \/ CheckoutReturn
    \/ ReleaseRepo

SpecRepo == InitRepo /\ [][NextRepo]_vars

\* -------------------------------------------------------------------- Binder
\* The argv vectors a caller passes to Binder::command.
HookCmds == { <<>>, <<"true">>, <<"yarn", "install">> }
\* The exit statuses a hook child can end with.
ExitStatuses == {"0", "1"}
\* The directories a caller passes to keep_artifacts and to bindings.
ArtifactPaths == { <<Comp("artifacts")>> }
BindingPaths == { <<Comp("bindings")>> }
\* The Config a caller passes to Binder::config; __root is what it holds before
\* generate overrides it.
UserConfigs == { [root |-> <<Comp("elsewhere")>>] }
\* The module generate writes to when no bindings path is set.
DefaultBindings == <<Comp("src"), Comp("contracts")>>
\* What the compiler can report.
CompileOutputs == {"clean", "warnings", "errors"}

\* Binder::new
Binder_new(location) ==
    [location |-> location, deployable |-> TRUE, keep_artifacts |-> None,
     commands |-> <<>>, config |-> None, bindings |-> None]

Local(p) == [kind |-> "Local", path |-> p]
\* SourceLocation::Remote(repo): the Repository is repo[1].
Remote == [kind |-> "Remote", path |-> Root]

\* Binder::command / set_deployable / keep_artifacts / bindings / config
add_command(b, cmd) == [b EXCEPT !.commands = Append(@, cmd)]
set_deployable(b, d) == [b EXCEPT !.deployable = d]
set_keep_artifacts(b, p) == [b EXCEPT !.keep_artifacts = Some(p)]
set_bindings(b, p) == [b EXCEPT !.bindings = Some(p)]
set_config(b, c) == [b EXCEPT !.config = Some(c)]

Event(ev, n, path, s) == [ev |-> ev, n |-> n, path |-> path, s |-> s]

\* The builders a Binder is constructed from.
SourceBuilders ==
    { [repo |-> u, rev |-> Tag("v1"), dest |-> d, db_path |-> db] :
        u \in {GoodUrl}, d \in {None, Some(<<Comp("work"), Comp("aave")>>)},
        db \in {None} \cup {Some(p) : p \in DbPaths} }
    \cup { [repo |-> u, rev |-> DefaultBranch, dest |-> None, db_path |-> None] :
             u \in {x \in Urls : x.cannot_be_a_base} }
    \cup { [repo |-> GoodUrl, rev |-> Branch("v1"), dest |-> Some(Root), db_path |-> None] }

\* Binder::new(path) was called, or Binder::new(builder) is about to be.
Init ==
    /\ InitCommon
    /\ repo = [p \in Procs |-> None]
    /\ \/ /\ pc = "new"
          /\ \E b \in SourceBuilders : builder = Some(b)
          /\ binder = NoBinder
       \/ /\ pc = "binder"
          /\ builder = None
          /\ \E p \in LocalPaths : binder = Binder_new(Local(p))

\* Binder::new(builder): From<RepositoryBuilder> for SourceLocation builds the
\* Repository.
BinderNew ==
    /\ pc = "new"
    /\ \E o \in BuildOutcomes(Unwrap(builder), disk) :
         /\ disk' = o.disk
         /\ repo' = [repo EXCEPT ![1] = o.repo]
         /\ pc' = IF o.panic THEN "panicked" ELSE "binder"
         /\ binder' = IF o.panic THEN binder ELSE Binder_new(Remote)
    /\ builder' = None
    /\ UNCHANGED <<calls, store, tree, lock, cpc, ctmp, cdb, coid, cres, cext, runs>>
    /\ UNCHANGED <<cfg, hookIdx, child, log, result>>

\* A setter of the Binder is called: before the first generate, or between
\* two of them (the setters take the Binder by value and hand it back).
BinderSet(nb) ==
    /\ pc = "binder"
    /\ nb /= binder
    /\ binder' = nb
    /\ UNCHANGED <<pc, builder, calls, runs, cfg, hookIdx, child, log, result>>
    /\ UNCHANGED repoVars

BinderCommand ==
    /\ Len(binder.commands) < MaxCmds
    /\ \E cmd \in HookCmds : BinderSet(add_command(binder, cmd))
BinderSetDeployable == \E d \in BOOLEAN : BinderSet(set_deployable(binder, d))
BinderKeepArtifacts == \E p \in ArtifactPaths : BinderSet(set_keep_artifacts(binder, p))
BinderBindings == \E p \in BindingPaths : BinderSet(set_bindings(binder, p))
BinderConfig == \E c \in UserConfigs : BinderSet(set_config(binder, c))

\* The Config generate works with: the Binder's config cloned with __root
\* replaced by the project, or the one load_config_with_root(Some(project))
\* loads.  artifacts is project.paths.artifacts once the project is made.
GenerateConfig(b, project) ==
    IF IsSome(b.config)
    THEN [Unwrap(b.config) EXCEPT !.root = project]
    ELSE [root |-> project]

\* generate returns res.
Return(res) ==
    /\ result' = res
    /\ pc' = "binder"

Logged(e) == log' = Append(log, e)

\* binder.generate() is called; self.location.get() starts.
Generate ==
    /\ pc = "binder"
    /\ runs < MaxRuns
    /\ runs' = runs + 1
    /\ pc' = "resolve"
    /\ log' = <<>>
    /\ result' = "none"
    /\ hookIdx' = 0
    /\ cfg' = NoCfg
    /\ cpc' = IF binder.location.kind = "Remote"
              THEN [cpc EXCEPT ![1] = "call"] ELSE cpc
    /\ cres' = [cres EXCEPT ![1] = "none"]
    /\ UNCHANGED <<builder, calls, repo, disk, store, tree, lock, ctmp, cdb, coid,
                   cext, binder, child>>

\* A variant of get on Local(p) that creates the directory p.
ResolveLocalCreates ==
    /\ pc = "resolve"
    /\ binder.location.kind = "Local"
    /\ cfg' = GenerateConfig(binder, binder.location.path)
    /\ Logged(Event("resolve", 0, binder.location.path, "Ok"))
    /\ pc' = "hooks"
    /\ disk' = CreateDirAll(binder.location.path, disk)
    /\ UNCHANGED <<builder, calls, binder, hookIdx, child, result, runs>>
    /\ UNCHANGED <<repo, store, tree, lock, cpc, ctmp, cdb, coid, cres, cext>>

\* A variant of the resolve step that stores the Config with the injected
\* root back into the Binder.
ResolveLocalStoresConfig ==
    /\ pc = "resolve"
    /\ binder.location.kind = "Local"
    /\ cfg' = GenerateConfig(binder, binder.location.path)
    /\ binder' = [binder EXCEPT !.config = Some(GenerateConfig(binder, binder.location.path))]
    /\ Logged(Event("resolve", 0, binder.location.path, "Ok"))
    /\ pc' = "hooks"
    /\ UNCHANGED <<builder, calls, hookIdx, child, result, runs>>
    /\ UNCHANGED repoVars

\* SourceLocation::get on Local(p): the path.
ResolveLocal ==
    /\ pc = "resolve"
    /\ binder.location.kind = "Local"
    /\ cfg' = GenerateConfig(binder, binder.location.path)
    /\ Logged(Event("resolve", 0, binder.location.path, "Ok"))
    /\ pc' = "hooks"
    /\ UNCHANGED <<builder, calls, binder, hookIdx, child, result, runs>>
    /\ UNCHANGED repoVars

\* SourceLocation::get on Remote(r): r.checkout() runs.
ResolveCheckout ==
    /\ pc = "resolve"
    /\ binder.location.kind = "Remote"
    /\ CheckoutStep(1)
    /\ UNCHANGED <<pc, builder, calls, repo, runs>>
    /\ UNCHANGED binderVars

\* A variant of get that drops the result of r.checkout().
get_ignores_error(res) == IF res = "Err" THEN "Ok" ELSE res

\* What SourceLocation::get makes of the result of r.checkout(): `?` hands an
\* Err on, Ok(()) lets get return the destination.
get_result(res) == res

\* r.checkout() is back: on Ok the project is r.dest.as_ref(), on Err generate
\* returns the error.
ResolveRemote ==
    /\ pc = "resolve"
    /\ binder.location.kind = "Remote"
    /\ cpc[1] = "ret"
    /\ cpc' = [cpc EXCEPT ![1] = "idle"]
    /\ CASE get_result(cres[1]) = "Ok" ->
              /\ cfg' = GenerateConfig(binder, dest_as_ref(Unwrap(repo[1])))
              /\ Logged(Event("resolve", 0, dest_as_ref(Unwrap(repo[1])), "Ok"))
              /\ pc' = "hooks"
              /\ UNCHANGED result
         [] get_result(cres[1]) = "Err" ->
              /\ Return("Err")
              /\ UNCHANGED <<cfg, log>>
         [] OTHER ->
              /\ pc' = "panicked"
              /\ UNCHANGED <<cfg, log, result>>
    /\ UNCHANGED <<builder, calls, repo, disk, store, tree, lock, ctmp, cdb, coid,
                   cres, cext, binder, hookIdx, child, runs>>

\* A variant of HookSpawn that does not wait for the running child (spawn()
\* in place of output()).
HookSpawnNoWait ==
    /\ pc = "hooks"
    /\ hookIdx < Len(binder.commands)
    /\ hookIdx' = hookIdx + 1
    /\ LET args == binder.commands[hookIdx + 1]
       IN  IF args = <<>>
           THEN /\ Return("Err")
                /\ UNCHANGED <<child, log>>
           ELSE /\ child' = Some([n |-> hookIdx + 1, cwd |-> cfg.root])
                /\ Logged(Event("hook_start", hookIdx + 1, cfg.root, Head(args)))
                /\ UNCHANGED <<pc, result>>
    /\ UNCHANGED <<builder, calls, binder, cfg, runs>>
    /\ UNCHANGED repoVars

\* A variant of HookSpawn that passes over an empty command (continue in
\* place of ensure!).
HookSpawnSkipsEmpty ==
    /\ pc = "hooks"
    /\ child = None
    /\ hookIdx < Len(binder.commands)
    /\ hookIdx' = hookIdx + 1
    /\ LET args == binder.commands[hookIdx + 1]
       IN  IF args = <<>>
           THEN UNCHANGED <<pc, result, child, log>>
           ELSE \/ /\ child' = Some([n |-> hookIdx + 1, cwd |-> cfg.root])
                   /\ Logged(Event("hook_start", hookIdx + 1, cfg.root, Head(args)))
                   /\ UNCHANGED <<pc, result>>
                \/ /\ Return("Err")
                   /\ UNCHANGED <<child, log>>
    /\ UNCHANGED <<builder, calls, binder, cfg, runs>>
    /\ UNCHANGED repoVars

\* Whether the exit status of a finished hook lets generate go on:
\* cmd.output()? fails only when the child cannot be spawned or waited for,
\* the Output with its status is discarded.
HookStatusOk(status) == TRUE

\* The loop over self.commands takes the next command: an empty one fails
\* ensure!, another is spawned in config.__root (which can fail).
HookSpawn ==
    /\ pc = "hooks"
    /\ child = None
    /\ hookIdx < Len(binder.commands)
    /\ hookIdx' = hookIdx + 1
    /\ LET args == binder.commands[hookIdx + 1]
       IN  IF args = <<>>
           THEN /\ Return("Err")
                /\ UNCHANGED <<child, log>>
           ELSE \/ /\ child' = Some([n |-> hookIdx + 1, cwd |-> cfg.root])
                   /\ Logged(Event("hook_start", hookIdx + 1, cfg.root, Head(args)))
                   /\ UNCHANGED <<pc, result>>
                \/ /\ Return("Err")
                   /\ UNCHANGED <<child, log>>
    /\ UNCHANGED <<builder, calls, binder, cfg, runs>>
    /\ UNCHANGED repoVars

\* cmd.output() returns: the child has exited.
HookExit ==
    /\ pc = "hooks"
    /\ child /= None
    /\ \E status \in ExitStatuses :
         /\ Logged(Event("hook_exit", Unwrap(child).n, Unwrap(child).cwd, status))
         /\ IF HookStatusOk(status)
            THEN UNCHANGED <<pc, result>>
            ELSE Return("Err")
    /\ child' = None
    /\ UNCHANGED <<builder, calls, binder, cfg, hookIdx, runs>>
    /\ UNCHANGED repoVars

\* The loop is over; config.project()? makes the project.
MakeProject ==
    /\ pc = "hooks"
    /\ child = None
    /\ hookIdx = Len(binder.commands)
    /\ \/ /\ Logged(Event("project", 0, cfg.root, "Ok"))
          /\ pc' = "artifacts"
          /\ UNCHANGED result
       \/ /\ Return("Err")
          /\ UNCHANGED log
    /\ UNCHANGED <<builder, calls, binder, cfg, hookIdx, child, runs>>
    /\ UNCHANGED repoVars

\* project.paths.artifacts before any override: the config's out directory.
DefaultArtifacts(root) == Append(root, Comp("out"))

\* Whether generate goes on after create_dir_all(&keep_artifacts) returned
\* ok: `let _ =` drops the result, so it goes on either way.
ArtifactsDirOk(ok) == TRUE

\* The artifacts override: create_dir_all's result is dropped (let _ =).
SetArtifacts ==
    /\ pc = "artifacts"
    /\ IF IsSome(binder.keep_artifacts)
       THEN \E ok \in BOOLEAN :
              /\ disk' = IF ok THEN CreateDirAll(Unwrap(binder.keep_artifacts), disk) ELSE disk
              /\ Logged(Event("create_dir_all", 0, Unwrap(binder.keep_artifacts),
                              IF ok THEN "Ok" ELSE "Err"))
              /\ IF ArtifactsDirOk(ok)
                 THEN pc' = "compile" /\ UNCHANGED result
                 ELSE Return("Err")
       ELSE /\ UNCHANGED <<disk, log, result>>
            /\ pc' = "compile"
    /\ UNCHANGED <<builder, calls, binder, cfg, hookIdx, child, runs>>
    /\ UNCHANGED <<repo, store, tree, lock, cpc, ctmp, cdb, coid, cres, cext>>

\* project.paths.artifacts as the compile and binding steps see it.
artifacts_path ==
    IF IsSome(binder.keep_artifacts) THEN Unwrap(binder.keep_artifacts)
    ELSE DefaultArtifacts(cfg.root)

\* project.compile()?
Compile ==
    /\ pc = "compile"
    /\ \/ \E out \in CompileOutputs :
            /\ Logged(Event("compile", 0, artifacts_path, out))
            /\ pc' = "diagnostics"
            /\ UNCHANGED result
       \/ /\ Return("Err")
          /\ UNCHANGED log
    /\ UNCHANGED <<builder, calls, binder, cfg, hookIdx, child, runs>>
    /\ UNCHANGED repoVars

\* A variant that takes warnings for errors.
warnings_are_errors(out) == out /= "clean"

\* ProjectCompileOutput::has_compiler_errors
has_compiler_errors(out) == out = "errors"

\* The compile output of the running generate.
compiled == log[Len(log)].s

\* if compiled.has_compiler_errors() { bail! }
CheckDiagnostics ==
    /\ pc = "diagnostics"
    /\ IF has_compiler_errors(compiled)
       THEN Return("Err")
       ELSE /\ pc' = "bindgen"
            /\ UNCHANGED result
    /\ UNCHANGED <<builder, calls, binder, cfg, hookIdx, child, log, runs>>
    /\ UNCHANGED repoVars

\* What generate asks of the binding generator for Binder b whose project
\* has the artifacts directory dir: MultiAbigen::from_json_files(dir) and
\* nothing else; no field of b is part of it.
bindgen_request(b, dir) == [artifacts |-> dir]

\* MultiAbigen::from_json_files(project.artifacts_path())?.build()?
GenerateBindings ==
    /\ pc = "bindgen"
    /\ \/ /\ Logged(Event("bindgen", 0, bindgen_request(binder, artifacts_path).artifacts, "Ok"))
          /\ pc' = "write"
          /\ UNCHANGED result
       \/ /\ Return("Err")
          /\ UNCHANGED log
    /\ UNCHANGED <<builder, calls, binder, cfg, hookIdx, child, runs>>
    /\ UNCHANGED repoVars

\* A variant that writes to the default module whatever was configured.
module_path_default(b) == DefaultBindings

\* self.bindings.clone().unwrap_or_else(|| "src/contracts".into())
module_path(b) == IF IsSome(b.bindings) THEN Unwrap(b.bindings) ELSE DefaultBindings

\* bindings.write_to_module(module, false)?; Ok(())
WriteOutput ==
    /\ pc = "write"
    /\ \/ /\ Logged(Event("write", 0, module_path(binder), "Ok"))
          /\ disk' = CreateDirAll(module_path(binder), disk)
          /\ Return("Ok")
       \/ /\ Return("Err")
          /\ UNCHANGED <<log, disk>>
    /\ UNCHANGED <<builder, calls, binder, cfg, hookIdx, child, runs>>
    /\ UNCHANGED <<repo, store, tree, lock, cpc, ctmp, cdb, coid, cres, cext>>

\* The Binder goes out of scope (after use, unused, or when a panic unwinds),
\* and with it its SourceLocation.
ReleaseBinder ==
    /\ pc \in {"binder", "panicked"}
    /\ pc' = "released"
    /\ IF IsSome(repo[1])
       THEN DropRepository(1)
       ELSE UNCHANGED <<disk, tree, store, repo>>
    /\ UNCHANGED <<builder, calls, lock, cpc, ctmp, cdb, coid, cres, cext, runs>>
    /\ UNCHANGED binderVars

Next ==
    \/ BinderNew
    \/ BinderCommand
    \/ BinderSetDeployable
    \/ BinderKeepArtifacts
    \/ BinderBindings
    \/ BinderConfig
    \/ Generate
    \/ ResolveLocal
    \/ ResolveCheckout
    \/ ResolveRemote
    \/ HookSpawn
    \/ HookExit
    \/ MakeProject
    \/ SetArtifacts
    \/ Compile
    \/ CheckDiagnostics
    \/ GenerateBindings
    \/ WriteOutput
    \/ ReleaseBinder

Spec == Init /\ [][Next]_vars

\* ------------------------------------- two checkouts running side by side
\* The Repositories two concurrent callers hold: each was built with its own
\* destination directory, with or without the persistent database.
SharedDest(p) == <<Comp("work"), Comp(IF p = 1 THEN "aave" ELSE "other")>>
SharedRepos(p) ==
    { [repo |-> GoodUrl, rev |-> r, db_path |-> db, dest |-> DestPath(SharedDest(p))] :
        r \in {Tag("v1"), Branch("main"), Rev("main")},
        db \in {None} \cup {Some(d) : d \in DbPaths} }

InitShared ==
    /\ InitCommon
    /\ pc = "shared"
    /\ builder = None
    /\ binder = NoBinder
    /\ \E r1 \in SharedRepos(1), r2 \in SharedRepos(2) :
         repo = [p \in Procs |-> IF p = 1 THEN Some(r1) ELSE Some(r2)]

\* Caller p calls checkout on its Repository.
SharedCall(p) ==
    /\ cpc[p] \in {"idle", "ret"}
    /\ runs < MaxRuns
    /\ runs' = runs + 1
    /\ cpc' = [cpc EXCEPT ![p] = "call"]
    /\ cres' = [cres EXCEPT ![p] = "none"]
    /\ UNCHANGED <<pc, builder, calls, repo, disk, store, tree, lock, ctmp, cdb, coid, cext>>
    /\ UNCHANGED binderVars

\* The checkout of caller p takes a step.
SharedRun(p) ==
    /\ CheckoutStep(p)
    /\ UNCHANGED <<pc, builder, calls, repo, runs>>
    /\ UNCHANGED binderVars

NextShared == \E p \in Procs : SharedCall(p) \/ SharedRun(p)

SpecShared == InitShared /\ [][NextShared]_vars

\* ------------------------------------------------------------------ claims
LogIdx == 1..Len(log)
\* The stages of generate, by the position of the call: Resolve, RunHooks
\* (with the making of the project), Compile (with the artifacts override),
\* CheckDiagnostics, GenerateBindings, WriteOutput.
StageRank ==
    [resolve |-> 1, hooks |-> 2, artifacts |-> 3, compile |-> 3,
     diagnostics |-> 4, bindgen |-> 5, write |-> 6]
InStage(at) == at \in DOMAIN StageRank
\* generate is running: the Binder is borrowed and no setter can be called.
Generating == InStage(pc)
\* The step in which the running generate returns to its caller.
Returns == InStage(pc) /\ pc' = "binder"
\* The events of the compile stage and of the stages after it.
CompileStageEvents == {"project", "create_dir_all", "compile", "bindgen", "write"}
\* Entry i of the log is the exit of a hook with a non-zero status.
HookFailed(i) == log[i].ev = "hook_exit" /\ log[i].s /= "0"

\* C1: once a hook that was spawned has exited with a non-zero status, no
\* later hook is started, the compile stage is not run, and generate returns
\* an error.
C1_FailingHookAborts ==
    \A i \in LogIdx :
        HookFailed(i) =>
            /\ \A j \in LogIdx :
                 j > i => log[j].ev \notin ({"hook_start"} \cup CompileStageEvents)
            /\ result /= "Ok"
            /\ pc \in {"binder", "released"} => result = "Err"

\* What the log of generate shows of the hooks, while generate runs and when
\* it returns (afterwards a setter may change the list): a hook that was started is
\* the command at its position of the hook list; every command before it has
\* exited; the event after its start is its own exit; and the compile stage is
\* entered only when every hook has exited.
C3_HooksInOrder ==
    /\ child /= None => Len(log) > 0 /\ log[Len(log)].ev = "hook_start"
    /\ \A i \in LogIdx :
         /\ log[i].ev = "hook_start" =>
              /\ log[i].n \in 1..Len(binder.commands)
              /\ log[i].s = Head(binder.commands[log[i].n])
              /\ i < Len(log) => log[i + 1].ev = "hook_exit" /\ log[i + 1].n = log[i].n
              /\ i = Len(log) => child /= None /\ Unwrap(child).n = log[i].n
              /\ \A m \in 1..(log[i].n - 1) :
                   \E j \in 1..(i - 1) : log[j].ev = "hook_exit" /\ log[j].n = m
              /\ \A j \in 1..(i - 1) : log[j].ev = "hook_start" => log[j].n < log[i].n
         /\ log[i].ev \in CompileStageEvents =>
              \A m \in 1..Len(binder.commands) :
                 \E j \in 1..(i - 1) : log[j].ev = "hook_exit" /\ log[j].n = m

\* Binder::command only ever adds at the end of the hook list.
C3_CommandsAppendOnly ==
    pc = "binder" /\ pc' = "binder" =>
        /\ Len(binder'.commands) >= Len(binder.commands)
        /\ SubSeq(binder'.commands, 1, Len(binder.commands)) = binder.commands

\* C3: generate runs the hooks one at a time in the order of the hook list,
\* which is the order of the Binder::command calls; hook i+1 is started only
\* after hook i has exited, and the compile stage only after the last hook
\* has exited.
C3_HookOrder ==
    /\ [](Generating => C3_HooksInOrder)
    /\ [][C3_CommandsAppendOnly /\ (Returns => C3_HooksInOrder')]_vars

\* Two different hooks were added, both have run and exited in that order,
\* and the compile stage has started.
C3_Witness ==
    /\ binder.commands = << <<"yarn", "install">>, <<"true">> >>
    /\ Len(log) >= 6
    /\ log[2] = Event("hook_start", 1, cfg.root, "yarn")
    /\ log[3].ev = "hook_exit" /\ log[3].n = 1
    /\ log[4] = Event("hook_start", 2, cfg.root, "true")
    /\ log[5].ev = "hook_exit" /\ log[5].n = 2
    /\ log[6].ev = "project"

\* The positions of the hook list that hold an empty command.
EmptyCommands == {e \in 1..Len(binder.commands) : binder.commands[e] = <<>>}

\* What holds of a generate on a Binder with an empty command in its hook
\* list, while it runs and when it has just returned.
C4_StoppedAtEmpty ==
    \A e \in EmptyCommands :
        /\ result /= "Ok"
        /\ pc \notin {"artifacts", "compile", "diagnostics", "bindgen", "write"}
        /\ hookIdx <= e
        /\ hookIdx = e => pc = "binder" /\ result = "Err"
        /\ \A i \in LogIdx :
             /\ log[i].ev \notin CompileStageEvents
             /\ log[i].ev = "hook_start" => log[i].n < e

\* C4: with an empty command in the hook list generate never returns Ok, never
\* gets to the compile stage or beyond, starts no hook placed after the first
\* empty command, and returns an error once it gets to the empty command.
C4_EmptyCommandAborts ==
    /\ [](Generating => C4_StoppedAtEmpty)
    /\ [][Returns => C4_StoppedAtEmpty' /\ (EmptyCommands /= {} => result' = "Err")]_vars

\* A hook ran and exited, then the empty command after it stopped generate
\* with an error.
C4_Witness ==
    /\ Len(binder.commands) >= 2
    /\ binder.commands[1] /= <<>>
    /\ binder.commands[2] = <<>>
    /\ pc = "binder"
    /\ result = "Err"
    /\ hookIdx = 2
    /\ Len(log) = 3
    /\ log[3].ev = "hook_exit"

\* The Repository of the main thread, once built.
TheRepo == Unwrap(repo[1])
\* It was built with neither a destination nor a database path.
Ephemeral ==
    IsSome(repo[1]) /\ TheRepo.dest.kind = "Temp" /\ ~IsSome(TheRepo.db_path)
\* The directories below the system's temporary directory.
TempDirsOnDisk == {d \in disk : IsPrefix(TempRoot, d) /\ d /= TempRoot}
\* Those of them that are, or lie in, a temporary root made by checkout.
TmpRootsOnDisk == {d \in TempDirsOnDisk : d[Len(TempRoot) + 1][1] = DefaultTmpPrefix}

\* C2: for a Repository built with neither destination nor database path, the
\* temporary database root is gone whenever checkout is not running, and no
\* temporary directory at all is left once the Repository is released,
\* whatever checkout and generate returned.
C2_NoResidue ==
    Ephemeral =>
        /\ cpc[1] \in {"idle", "ret"} => TmpRootsOnDisk = {}
        /\ pc = "released" => TempDirsOnDisk = {}

\* Such a Repository was checked out and extracted, generate succeeded, and
\* the Binder owning it was released.
C2_Witness ==
    /\ Ephemeral
    /\ pc = "released"
    /\ cres[1] = "Ok"
    /\ result = "Ok"
    /\ TempDirsOnDisk = {}

CallRef(c) ==
    [kind |-> CASE c.op = "branch" -> "Branch" [] c.op = "tag" -> "Tag" [] OTHER -> "Rev",
     name |-> c.name]
\* The reference of the last branch/tag/rev call among cs, the default
\* reference when there is none.
RECURSIVE LastRef(_)
LastRef(cs) ==
    IF cs = <<>> THEN DefaultBranch
    ELSE IF cs[Len(cs)].op \in {"branch", "tag", "rev"} THEN CallRef(cs[Len(cs)])
    ELSE LastRef(SubSeq(cs, 1, Len(cs) - 1))

\* C5: the builder, and the Repository build makes of it, carry the reference
\* of the last branch/tag/rev call, whatever dest and database calls came
\* between or after.
C5_LastReferenceWins ==
    /\ IsSome(builder) => Unwrap(builder).rev = LastRef(calls)
    /\ IsSome(repo[1]) => TheRepo.rev = LastRef(calls)

\* .tag("v1"), a dest call, .branch("main"), then build: Branch("main").
C5_Witness ==
    /\ Len(calls) = 3
    /\ calls[1] = CallTag("v1")
    /\ calls[2].op = "dest"
    /\ calls[3] = CallBranch("main")
    /\ pc = "built"
    /\ TheRepo.rev = Branch("main")

\* C6: when the checkout of a Remote source has failed, generate runs no hook,
\* no compilation and no write, and returns the error.
C6_ResolveFailureAborts ==
    cres[1] = "Err" =>
        /\ log = <<>>
        /\ child = None
        /\ pc \in {"resolve", "binder", "released"}
        /\ pc /= "resolve" => result = "Err"

\* The checkout failed and generate has returned, with hooks on the list.
C6_Witness ==
    /\ cres[1] = "Err"
    /\ pc = "binder"
    /\ result = "Err"
    /\ Len(binder.commands) = 2
    /\ binder.commands[1] /= <<>>
    /\ log = <<>>

\* Compile errors are the last thing generate does before it returns its
\* error.
C7_ErrorsAreLast ==
    \A i \in LogIdx :
        log[i].ev = "compile" /\ log[i].s = "errors" =>
            /\ i = Len(log)
            /\ pc \in {"diagnostics", "binder", "released"}
            /\ pc /= "diagnostics" => result = "Err"

\* The step after the compilation: errors make generate return an error,
\* anything else takes it to the binding generation.
C7_DiagnosticsStep ==
    pc = "diagnostics" /\ pc' /= "diagnostics" =>
        IF compiled = "errors"
        THEN pc' = "binder" /\ result' = "Err" /\ log' = log
        ELSE pc' = "bindgen" /\ result' = result /\ log' = log

\* C7: compile errors end generate with an error before any binding is
\* generated or written; a compile output without errors (clean or with
\* warnings only) lets generate go on to the binding generation.
C7_CompileErrorsAbort == [](C7_ErrorsAreLast) /\ [][C7_DiagnosticsStep]_vars

\* The compiler reported errors and generate has returned its error.
C7_Witness ==
    /\ pc = "binder"
    /\ result = "Err"
    /\ Len(log) > 0
    /\ log[Len(log)] = Event("compile", 0, artifacts_path, "errors")

\* It was built with an explicit destination directory.
PathDest == IsSome(repo[1]) /\ TheRepo.dest.kind = "Path"

\* A successful checkout has extracted the tree of the resolved oid into
\* exactly the explicit destination.
C8_ExtractedThere ==
    PathDest /\ cres[1] = "Ok" =>
        /\ TheRepo.dest.dir \in disk
        /\ <<TheRepo.dest.dir, Unwrap(RemoteRef(TheRepo.rev))>> \in tree
        /\ Len(cext[1]) = 1
        /\ cext[1][1].dest = TheRepo.dest.dir

\* No step deletes the explicit destination or the tree in it.
C8_NeverDeleted ==
    PathDest =>
        /\ TheRepo.dest.dir \in disk => TheRepo.dest.dir \in disk'
        /\ \A t \in tree : t[1] = TheRepo.dest.dir => \E u \in tree' : u[1] = t[1]

\* C8: with an explicit destination, a successful checkout has extracted the
\* tree of the resolved oid into exactly that directory, and no step (of
\* checkout, of generate, or the release) deletes the directory or the tree
\* in it.
C8_PersistentDestination == [](C8_ExtractedThere) /\ [][C8_NeverDeleted]_vars

\* The tree was extracted into the explicit destination, generate failed
\* later, the Binder was released, and the directory is still there.
C8_Witness ==
    /\ PathDest
    /\ pc = "released"
    /\ cres[1] = "Ok"
    /\ result = "Err"
    /\ TheRepo.dest.dir = <<Comp("work"), Comp("aave")>>
    /\ TheRepo.dest.dir \in disk

\* A step that is a call of build.
BuildStep == pc = "builder" /\ pc' \in {"built", "panicked"}

\* C9, as stated: build leaves the set of directories on disk as it was, for
\* every builder, also one with no destination set.
C9_BuildTouchesNothing == [][BuildStep => disk' = disk]_vars

\* What a call of build does to the disk.
C9_BuildStepEffect ==
    BuildStep =>
        /\ store' = store /\ tree' = tree
        /\ IF IsSome(Unwrap(builder).dest)
           THEN disk' = disk /\ pc' = "built"
           ELSE \/ pc' = "panicked" /\ disk' = disk
                \/ /\ pc' = "built"
                   /\ ~Unwrap(builder).repo.cannot_be_a_base
                   /\ LET dir == Unwrap(repo'[1]).dest.dir
                          segs == Unwrap(builder).repo.segs
                      IN  /\ Unwrap(repo'[1]).dest.kind = "Temp"
                          /\ dir \notin disk
                          /\ disk' = disk \cup {dir}
                          /\ Len(dir) = Len(TempRoot) + 1
                          /\ IsPrefix(TempRoot, dir)
                          /\ dir[Len(dir)][1] = segs[Len(segs)]

\* C9, amended: with a destination set build changes nothing on disk; with
\* none set it either panics and changes nothing, or creates exactly one new
\* directory, the ephemeral destination, directly in the temporary directory
\* and prefixed with the url's last path segment.  The databases and the
\* extracted trees are never touched.
C9_BuildCreatesOnlyTheEphemeralDest == [][C9_BuildStepEffect]_vars

\* build has just made a Repository with an ephemeral destination, which is on
\* disk.
C9_Witness ==
    /\ pc = "built"
    /\ runs = 0
    /\ TheRepo.dest.kind = "Temp"
    /\ TheRepo.dest.dir \in disk
    /\ TheRepo.dest.dir \notin InitialDisk

\* C10: two checkouts are never both inside the fetch-and-resolve section of
\* the same database path.
C10_FetchResolveExclusive ==
    \A p \in Procs : \A q \in Procs :
        p /= q /\ InFetchResolve(p) /\ InFetchResolve(q) => cdb[p] /= cdb[q]

\* Both callers use the same persistent database; one is fetching into it and
\* the other waits for it.
C10_Witness ==
    /\ IsSome(Unwrap(repo[1]).db_path)
    /\ Unwrap(repo[1]).db_path = Unwrap(repo[2]).db_path
    /\ cpc[1] = "fetch"
    /\ cpc[2] = "lock"
    /\ cdb[1] = cdb[2]
    /\ ~LockFree(cdb[2])

\* Entry i of the log is a create_dir_all of the artifacts directory that
\* failed.
ArtifactsDirFailed(i) == log[i].ev = "create_dir_all" /\ log[i].s = "Err"

\* C11: no failure inside generate is swallowed; in particular, once creating
\* the configured artifacts directory has failed, generate does nothing more
\* (no compilation, binding generation or write) and returns an error.
C11_ArtifactsDirFailureAborts ==
    \A i \in LogIdx :
        ArtifactsDirFailed(i) =>
            /\ \A j \in LogIdx : j > i => log[j].ev \notin {"compile", "bindgen", "write"}
            /\ result /= "Ok"
            /\ pc \in {"binder", "released"} => result = "Err"

\* C12: binding generation follows the deployable flag: the request generate
\* made of the binding generator differs from the one a Binder that differs
\* only in deployable would have made for the same artifacts.
C12_BindingsFollowDeployable ==
    \A i \in LogIdx :
        log[i].ev = "bindgen" =>
            bindgen_request(binder, log[i].path)
                /= bindgen_request(set_deployable(binder, ~binder.deployable), log[i].path)

\* The Repository was built with a database path.
PersistentDb == IsSome(repo[1]) /\ IsSome(TheRepo.db_path)
\* checkout is between its entry and its return, working on a database.
InCopyTo == cpc[1] \in {"lock", "fetch", "resolve", "extract"}

\* The database checkout works on, and what is left of it when checkout is
\* not running.
C13_DatabaseLocation ==
    IsSome(repo[1]) =>
        /\ PersistentDb =>
             /\ InCopyTo => cdb[1] = Unwrap(TheRepo.db_path) /\ ctmp[1] = None
             /\ TmpRootsOnDisk = {}
             /\ \A e \in store : e[1] = Unwrap(TheRepo.db_path)
             /\ cres[1] = "Ok" =>
                  /\ Unwrap(TheRepo.db_path) \in disk
                  /\ <<Unwrap(TheRepo.db_path), Unwrap(RemoteRef(TheRepo.rev))>> \in store
        /\ ~PersistentDb =>
             /\ InCopyTo =>
                  /\ IsSome(ctmp[1])
                  /\ Unwrap(ctmp[1]) \in disk
                  /\ Len(cdb[1]) = Len(Unwrap(ctmp[1])) + 1
                  /\ IsPrefix(Unwrap(ctmp[1]), cdb[1])
                  /\ \A e \in store : e[1] = cdb[1]
             /\ cpc[1] \in {"idle", "ret"} => TmpRootsOnDisk = {} /\ store = {}

\* No step deletes the persistent database or an object in it, and the
\* temporary root checkout allocates did not exist before.
C13_DatabaseStep ==
    /\ PersistentDb =>
         /\ Unwrap(TheRepo.db_path) \in disk => Unwrap(TheRepo.db_path) \in disk'
         /\ store \subseteq store'
    /\ ctmp[1] = None /\ IsSome(ctmp'[1]) => Unwrap(ctmp'[1]) \notin disk

\* C13: with a database path, checkout works on exactly that path and no
\* step deletes the database or its objects, so it is there after checkout
\* returned; without one, the database lies directly in a fresh temporary
\* root, and that root and the database are gone once checkout has returned
\* or panicked.
C13_DatabaseLifetime == [](C13_DatabaseLocation) /\ [][C13_DatabaseStep]_vars

\* A first checkout filled the persistent database, a second one failed, and
\* the database with its objects is still there.
C13_Witness ==
    /\ PersistentDb
    /\ runs = 2
    /\ pc = "built"
    /\ cres[1] = "Err"
    /\ Unwrap(TheRepo.db_path) \in disk
    /\ <<Unwrap(TheRepo.db_path), "oid_main">> \in store

\* The path SourceLocation::get returned, as generate goes on with it.
GotPath(p) ==
    /\ pc' = "hooks"
    /\ log' = <<Event("resolve", 0, p, "Ok")>>
    /\ cfg'.root = p

\* get on a Local location: the step returns the path and touches nothing.
C14_LocalGet ==
    pc = "resolve" /\ binder.location.kind = "Local" =>
        /\ GotPath(binder.location.path)
        /\ UNCHANGED <<disk, store, tree, lock, cext>>

\* get on a Remote location returns only after checkout fetched, resolved and
\* extracted with success, and then it returns the destination directory.
C14_RemoteGet ==
    pc = "resolve" /\ binder.location.kind = "Remote" /\ pc' = "hooks" =>
        /\ cres[1] = "Ok"
        /\ Len(cext[1]) = 1
        /\ cext[1][1].dest = dest_as_ref(TheRepo)
        /\ <<dest_as_ref(TheRepo), cext[1][1].oid>> \in tree
        /\ dest_as_ref(TheRepo) \in disk
        /\ GotPath(dest_as_ref(TheRepo))

\* A Binder on a Local location never runs a checkout.
C14_LocalNoCheckout ==
    binder.location.kind = "Local" =>
        cpc[1] = "idle" /\ cext[1] = <<>> /\ store = {} /\ tree = {} /\ lock = {}

\* C14: SourceLocation::get on Local(p) returns exactly p and changes nothing
\* on disk; on Remote it runs the checkout, fetch and resolution followed by
\* the extraction, and returns the destination directory only when both
\* succeeded.
C14_Get == [](C14_LocalNoCheckout) /\ [][C14_LocalGet /\ C14_RemoteGet]_vars

\* get returned the path of a Local location and the disk is as it was when
\* the Binder was made.
C14_Witness ==
    /\ binder.location.kind = "Local"
    /\ pc = "hooks"
    /\ log = <<Event("resolve", 0, binder.location.path, "Ok")>>
    /\ cfg.root = binder.location.path
    /\ disk = InitialDisk

\* The hooks started so far by the running (or last) generate.
HooksStarted == SelectSeq(log, LAMBDA e : e.ev = "hook_start")

\* Every step from the call of generate to its return, and every step after
\* the first call, leaves the Binder as it was.
C15_BinderUnchanged ==
    pc /= "new" /\ ~(pc = "binder" /\ pc' = "binder") => binder' = binder

\* The Config of the Binder is the one its caller set.
C15_ConfigKept == IsSome(binder.config) => Unwrap(binder.config) \in UserConfigs

\* The root is injected into the copy only, and the hooks a generate starts
\* are the Binder's commands from the first on, in insertion order.
C15_CopyAndHooks ==
    /\ log /= <<>> => cfg = GenerateConfig(binder, log[1].path)
    /\ Len(HooksStarted) <= Len(binder.commands)
    /\ \A k \in 1..Len(HooksStarted) :
         /\ HooksStarted[k].n = k
         /\ HooksStarted[k].s = Head(binder.commands[k])
         /\ HooksStarted[k].path = cfg.root

\* C15: generate leaves the Binder's configuration unchanged on every exit
\* path: the project root goes into the copy of the Config only, and the
\* command list is as it was, so that a second generate on the same Binder
\* starts the same hooks in the same order.
C15_GenerateKeepsBinder ==
    /\ [](C15_ConfigKept /\ (Generating => C15_CopyAndHooks))
    /\ [][C15_BinderUnchanged /\ (Returns => C15_CopyAndHooks')]_vars

\* A second generate on a Binder with a Config of its own and two hooks has
\* started both hooks again, in the project root.
C15_Witness ==
    /\ runs = 2
    /\ IsSome(binder.config)
    /\ Len(binder.commands) = 2
    /\ binder.commands[1] /= binder.commands[2]
    /\ Len(HooksStarted) = 2
    /\ cfg.root /= Unwrap(binder.config).root

\* The writes of the bundle by the running (or last) generate.
Writes == SelectSeq(log, LAMBDA e : e.ev = "write")
\* Where the Binder has the bundle written.
ConfiguredModule ==
    IF IsSome(binder.bindings) THEN Unwrap(binder.bindings)
    ELSE <<Comp("src"), Comp("contracts")>>

\* The writes of a generate, while it runs and when it has just returned.
C16_WriteLast ==
    /\ Len(Writes) <= 1
    /\ result = "Ok" => Len(Writes) = 1 /\ ConfiguredModule \in disk
    /\ \A i \in LogIdx :
         log[i].ev = "write" =>
             /\ i = Len(log)
             /\ log[i].path = ConfiguredModule
             /\ \E j \in 1..(i - 1) : log[j].ev = "compile"
             /\ \A j \in 1..(i - 1) : log[j].ev = "compile" => log[j].s /= "errors"
             /\ \E j \in 1..(i - 1) : log[j].ev = "bindgen"

\* C16: a generate that returned Ok has written the bundle exactly once; a
\* write goes to the configured bindings path, or to src/contracts when none
\* was set, is the last thing generate does, and comes only after the
\* compilation of this run reported no errors.
C16_WrittenOnce ==
    /\ [](Generating => C16_WriteLast)
    /\ [][Returns => C16_WriteLast']_vars

\* generate returned Ok on a Binder with a bindings path set, after a
\* compilation with warnings only, and the bundle is at that path.
C16_Witness ==
    /\ result = "Ok"
    /\ IsSome(binder.bindings)
    /\ Len(Writes) = 1
    /\ Writes[1].path = Unwrap(binder.bindings)
    /\ Unwrap(binder.bindings) /= DefaultBindings
    /\ \E j \in LogIdx : log[j].ev = "compile" /\ log[j].s = "warnings"

\* Entry i of the log records a step that failed.
StepFailed(i) ==
    \/ HookFailed(i)
    \/ ArtifactsDirFailed(i)
    \/ log[i].ev = "compile" /\ log[i].s = "errors"

\* The stages are entered in order, none twice, and generate returns Ok from
\* the last one only.
C17_StageOrder ==
    /\ InStage(pc) /\ InStage(pc') => StageRank[pc] <= StageRank[pc']
    /\ pc = "binder" /\ pc' /= "binder" => pc' \in {"resolve", "released"}
    /\ InStage(pc) /\ result' = "Ok" => pc = "write"

\* A failed step is the last thing a generate did, and that generate did not
\* return Ok.
C17_FailureStops ==
    \A i \in LogIdx : StepFailed(i) => i = Len(log) /\ result /= "Ok"

\* C17: generate is a linear fail-fast machine: Resolve, RunHooks, Compile,
\* CheckDiagnostics, GenerateBindings, WriteOutput are entered in this order,
\* each at most once; it returns Ok only when every stage completed with
\* success, and after the first failure no later step is taken.
C17_LinearFailFast == [](C17_FailureStops) /\ [][C17_StageOrder]_vars

\* What the destination of the Repository holds, given the trees on disk.
DestTree(trees) == {t \in trees : t[1] = dest_as_ref(TheRepo)}

\* The extraction is reached with the oid GitRemote::checkout resolved in the
\* database of this call, and an extraction that was done used them and
\* belongs to a checkout that returned Ok (the record of the call before is
\* there until the next call is entered).
C18_ExtractionArgs ==
    IsSome(repo[1]) =>
        /\ cpc[1] = "extract" =>
             /\ coid[1] = RemoteRef(TheRepo.rev)
             /\ IsSome(coid[1])
             /\ <<cdb[1], Unwrap(coid[1])>> \in store
             /\ PersistentDb => cdb[1] = Unwrap(TheRepo.db_path)
        /\ Len(cext[1]) <= 1
        /\ cext[1] /= <<>> =>
             /\ cpc[1] /= "call" => cres[1] = "Ok"
             /\ cext[1][1].oid = Unwrap(RemoteRef(TheRepo.rev))
             /\ cext[1][1].dest = dest_as_ref(TheRepo)
             /\ PersistentDb => cext[1][1].db = Unwrap(TheRepo.db_path)
             /\ ~PersistentDb => IsPrefix(Append(TempRoot, <<DefaultTmpPrefix, "a">>), cext[1][1].db)

\* A step of checkout before the extraction, one in which fetch or resolve
\* fails included, extracts nothing and leaves the destination as it was.
C18_NoExtractionBefore ==
    pc = "checkout" /\ cpc[1] \in {"call", "lock", "fetch", "resolve"} =>
        /\ cext'[1] = <<>>
        /\ DestTree(tree') = DestTree(tree)
        /\ dest_as_ref(TheRepo) \in disk' <=> dest_as_ref(TheRepo) \in disk

\* C18: within one checkout the extraction is invoked only with the oid and
\* the database that GitRemote::checkout of the same call returned with
\* success; when the fetch or the resolution fails, no extraction is invoked
\* and the contents of the destination are as they were before the call.
C18_ExtractAfterCheckout == [](C18_ExtractionArgs) /\ [][C18_NoExtractionBefore]_vars

\* A revision the remote does not have: the fetch into the persistent
\* database went through, the resolution failed, nothing was extracted.
C18_Witness ==
    /\ PersistentDb
    /\ TheRepo.rev.kind = "Rev"
    /\ ~IsSome(RemoteRef(TheRepo.rev))
    /\ cpc[1] = "ret"
    /\ cres[1] = "Err"
    /\ cext[1] = <<>>
    /\ store /= {}
    /\ DestTree(tree) = {}

\* C19: build and checkout never abort abnormally: for every url and
\* destination, with or without a database path, each of them returns, with a
\* Repository, Ok or an error, and never panics.
C19_NoAbnormalAbort == pc /= "panicked" /\ cres[1] /= "Panic"

\* The Binder's source is a Repository with an ephemeral destination.
RemoteEphemeralDest ==
    binder.location.kind = "Remote" /\ IsSome(repo[1]) /\ TheRepo.dest.kind = "Temp"
\* generate is past Resolve: in RunHooks or a later stage.
PastResolve == InStage(pc) /\ StageRank[pc] >= 2

\* From the end of Resolve through WriteOutput the extracted destination is
\* on disk with the resolved tree in it; the temporary database of the
\* checkout is gone by then, before the first hook starts.
C20_DuringGenerate ==
    RemoteEphemeralDest /\ PastResolve =>
        /\ dest_as_ref(TheRepo) \in disk
        /\ <<dest_as_ref(TheRepo), Unwrap(RemoteRef(TheRepo.rev))>> \in tree
        /\ ~PersistentDb => TmpRootsOnDisk = {} /\ store = {}

\* The destination is deleted by the release only.
C20_DeletedOnRelease ==
    RemoteEphemeralDest /\ dest_as_ref(TheRepo) \in disk /\ dest_as_ref(TheRepo) \notin disk'
        => pc' = "released"

\* C20: for a Remote source with an ephemeral destination, the extracted
\* destination directory exists in every state of generate from the end of
\* Resolve through WriteOutput and is deleted only when the Binder is
\* released, whereas the temporary database allocated by checkout is already
\* deleted before the first hook runs.
C20_DestinationOutlivesDatabase == [](C20_DuringGenerate) /\ [][C20_DeletedOnRelease]_vars

\* The bundle is about to be written, both hooks have run in the extracted
\* destination, and the temporary database is gone.
C20_Witness ==
    /\ RemoteEphemeralDest
    /\ ~PersistentDb
    /\ pc = "write"
    /\ Len(HooksStarted) = 2
    /\ HooksStarted[1].path = dest_as_ref(TheRepo)
    /\ dest_as_ref(TheRepo) \in disk
    /\ TmpRootsOnDisk = {}

====
